---- MODULE Spec2Model ----
\* Model of the data migration tool cmd/migrate/main.go (SQL Server -> PostgreSQL):
\* the run loop of main (discover tables, fetch columns, optional truncate, copy)
\* and the batched transactional copy loop of migrateTableData, one step per
\* database call.  Every database call may fail; what the program does with the
\* failure is taken from the code.
\* Between discovery and the copy loop main passes the table list through its
\* filters, one step per filter.  The type mapper of the schema tool
\* cmd/schema/main.go is modelled as a step of its own.
EXTENDS Integers, Sequences, FiniteSets, TLC

\* ---------------------------------------------------------------- bounds
MaxRows == 4        \* largest number of rows a source table holds
MaxBatch == 2       \* largest -batch-size value tried
MaxCols == 2        \* longest column list the metadata query returns
MaxUpper == 1       \* most upper-case letters in a spelling of a type name, short of all
MaxCeiling == 1     \* largest ceiling given to -exclude-large-tables and -max-table-size
MaxSizeMB == 2      \* largest size estimate (MB) the size probe reports

\* ---------------------------------------------------------------- names
\* A qualified table name is a string, modelled as a sequence of characters.
Dot == "."

\* getSourceTables builds schema + "." + tableName (main.go:671).
QualifiedName(schema, tableName) == schema \o <<Dot>> \o tableName

TblA == QualifiedName(<<"d">>, <<"a">>)
TblB == QualifiedName(<<"d">>, <<"b">>)
\* a table whose own name holds a dot: its qualified name has three parts
TblBC == QualifiedName(<<"d">>, <<"b", Dot, "c">>)

\* The table lists INFORMATION_SCHEMA.TABLES can hold (ORDER BY schema, name).
Catalogs == { <<TblA, TblB>>, <<TblA, TblB, TblBC>> }

AllTables == {TblA, TblB, TblBC}

\* strings.Split(s, "."): the parts of s between the dots.
RECURSIVE SplitAcc(_, _, _)
SplitAcc(s, cur, acc) ==
    IF s = <<>> THEN Append(acc, cur)
    ELSE IF Head(s) = Dot THEN SplitAcc(Tail(s), <<>>, Append(acc, cur))
    ELSE SplitAcc(Tail(s), Append(cur, Head(s)), acc)

Split(s) == SplitAcc(s, <<>>, <<>>)

\* the test `len(parts) != 2` of getTableColumns, migrateTableData and main
ValidName(s) == Len(Split(s)) = 2

\* strings.Split(s, sep) for a one-character separator
RECURSIVE SplitByAcc(_, _, _, _)
SplitByAcc(s, sep, cur, acc) ==
    IF s = <<>> THEN Append(acc, cur)
    ELSE IF Head(s) = sep THEN SplitByAcc(Tail(s), sep, <<>>, Append(acc, cur))
    ELSE SplitByAcc(Tail(s), sep, Append(cur, Head(s)), acc)

SplitBy(s, sep) == SplitByAcc(s, sep, <<>>, <<>>)

\* strings.TrimSpace
RECURSIVE TrimLeft(_)
TrimLeft(s) == IF s # <<>> /\ Head(s) = " " THEN TrimLeft(Tail(s)) ELSE s

RECURSIVE TrimRight(_)
TrimRight(s) ==
    IF s # <<>> /\ s[Len(s)] = " " THEN TrimRight(SubSeq(s, 1, Len(s) - 1)) ELSE s

TrimSpace(s) == TrimRight(TrimLeft(s))

\* strings.HasPrefix and strings.Contains for a one-character needle
HasPrefix(s, pre) == Len(s) >= Len(pre) /\ SubSeq(s, 1, Len(pre)) = pre
Contains(s, c) == \E i \in 1..Len(s) : s[i] = c

\* strings.ToLower and strings.EqualFold on the letters used here
UpperChars == <<"A", "B", "C", "D", "E", "F", "G", "H", "I", "J", "K", "L", "M",
                "N", "O", "P", "Q", "R", "S", "T", "U", "V", "W", "X", "Y", "Z">>
LowerChars == <<"a", "b", "c", "d", "e", "f", "g", "h", "i", "j", "k", "l", "m",
                "n", "o", "p", "q", "r", "s", "t", "u", "v", "w", "x", "y", "z">>

LowerChar(c) ==
    IF \E i \in 1..Len(UpperChars) : UpperChars[i] = c
    THEN LowerChars[CHOOSE i \in 1..Len(UpperChars) : UpperChars[i] = c]
    ELSE c

UpperChar(c) ==
    IF \E i \in 1..Len(LowerChars) : LowerChars[i] = c
    THEN UpperChars[CHOOSE i \in 1..Len(LowerChars) : LowerChars[i] = c]
    ELSE c

ToLower(s) == [i \in 1..Len(s) |-> LowerChar(s[i])]

EqualFold(a, b) == ToLower(a) = ToLower(b)

\* the decimal digit of fmt.Sprintf("%d", i) for i < 10
Digit(i) == <<"0", "1", "2", "3", "4", "5", "6", "7", "8", "9">>[i + 1]

\* The column lists a metadata query can deliver: c1, c2, ... in ordinal order.
ColName(i) == <<"C", Digit(i)>>
ColumnLists == { [i \in 1..n |-> ColName(i)] : n \in 0..MaxCols }

\* The rows of a source table with n rows, in cursor order: row ids 1..n.
SourceRows(n) == [i \in 1..n |-> i]

\* A row the target table may hold before the run (not a source row id).
OldRow == 0

ProperPrefixes(s) == { SubSeq(s, 1, k) : k \in 0..(Len(s) - 1) }

Unknown == -1
NoErr == "none"

\* ---------------------------------------------------------------- state
VARIABLES
    batchSize,      \* *batchSizeFlag
    truncateFlag,   \* *truncateFlag
    tablesFlag,             \* *tablesFlag (a string)
    excludeTablesFlag,      \* *excludeTablesFlag (a string)
    excludeEmptyTablesFlag, \* *excludeEmptyTablesFlag
    excludeLargeTablesFlag, \* *excludeLargeTablesFlag
    maxTableSizeFlag,       \* *maxTableSizeFlag
    skipIfExistsFlag,       \* *skipIfExistsFlag
    includeSystemSchemasFlag, \* *includeSystemSchemasFlag
    preserveCaseFlag,       \* *preserveCaseFlag
    srcCatalog,     \* source store: the base tables of the selected schemas, in order
    probeLog,       \* the filter probes issued so far, <<filter, table, <<ok, value>>>>
    warnings,       \* the warnings logged by the filters, <<filter, table>>
    dataType,       \* schema tool: a column's source type name
    pgType,         \* schema tool: the target type chosen for it
    srcRows,        \* source store: table -> row count (Unknown until first read)
    target,         \* target store: table -> committed rows
    target0,        \* the target store as it was when the run started
    tgtAtStart,     \* rows of the current table in the target when its copy was called
    mpc,            \* position of main
    tables,         \* main: tables
    tablesIterErr,  \* rows.Err() of the table-list cursor when its loop ended
    idx,            \* main: position of the range loop in tables
    columns,        \* main: columns of the current table
    colsIterErr,    \* rows.Err() of the column cursor when its loop ended
    totalRows,      \* main: totalRows
    mainLog,        \* the calls main has made so far, <<operation, table>>
    cpc,            \* position of migrateTableData
    srcQueries,     \* queries this call issued to the source
    cursor,         \* rows the source cursor has delivered
    rowsErr,        \* rows.Err() of the source cursor
    rowCount,       \* migrateTableData: rowCount
    batchCount,     \* migrateTableData: batchCount
    txOpen,         \* a target transaction is open
    txRows,         \* rows inserted in the open transaction, not yet committed
    txId,           \* ordinal of the transaction tx refers to (0: none yet)
    stmtTx,         \* ordinal of the transaction stmt was prepared in (0: no open stmt)
    pendingErr,     \* error being returned once the rollback is done
    retCount,       \* returned row count
    retErr,         \* returned error
    begins,         \* targetDb.Begin calls that succeeded in this call
    commits,        \* tx.Commit calls that succeeded in this call
    rollbacks,      \* tx.Rollback calls in this call
    inserts,        \* stmt.Exec calls that succeeded in this call
    commitLog,      \* sizes of the batches committed in this call
    selectCols,     \* migrateTableData: sqlServerColumns, the select list
    insertCols,     \* migrateTableData: columnList, the insert column list
    placeholders,   \* migrateTableData: placeholders
    values,         \* migrateTableData: values of the row scanned last
    bound,          \* the binding of the last insert: <<target column, value>> per position
    openTxs,        \* target transactions begun and not yet committed or rolled back
    openCursors     \* source cursors open

flagVars == <<batchSize, truncateFlag>>
filterFlagVars == <<tablesFlag, excludeTablesFlag, excludeEmptyTablesFlag,
                    excludeLargeTablesFlag, maxTableSizeFlag, skipIfExistsFlag,
                    includeSystemSchemasFlag, preserveCaseFlag>>
ddlVars == <<dataType, pgType>>
\* what the run loop and the copy never change
fixedVars == <<flagVars, filterFlagVars, srcCatalog, probeLog, warnings, ddlVars>>
stmtVars == <<selectCols, insertCols, placeholders, values, bound>>
storeVars == <<srcRows, target, target0, tgtAtStart>>
mainVars == <<mpc, tables, tablesIterErr, idx, columns, colsIterErr, totalRows, mainLog>>
copyVars == <<cpc, srcQueries, cursor, rowsErr, rowCount, batchCount, txOpen, txRows,
              txId, stmtTx, pendingErr, retCount, retErr, begins, commits, rollbacks,
              inserts, commitLog>>
vars == <<fixedVars, storeVars, mainVars, copyVars, stmtVars, openTxs, openCursors>>

\* the filter flags at their defaults (main.go:76-91)
FiltersOff ==
    /\ tablesFlag = <<>>
    /\ excludeTablesFlag = <<>>
    /\ excludeEmptyTablesFlag = FALSE
    /\ excludeLargeTablesFlag = 0
    /\ maxTableSizeFlag = 0
    /\ skipIfExistsFlag = FALSE
    /\ includeSystemSchemasFlag = FALSE

\* the schema tool has mapped no type
DdlIdle ==
    /\ dataType = <<>>
    /\ pgType = <<>>

\* the state of main and of migrateTableData when the run starts
RunStart ==
    /\ tgtAtStart = <<>>
    /\ mpc = "discover"
    /\ tables = <<>>
    /\ tablesIterErr = FALSE
    /\ idx = 0
    /\ columns = <<>>
    /\ colsIterErr = FALSE
    /\ totalRows = 0
    /\ mainLog = <<>>
    /\ probeLog = <<>>
    /\ warnings = <<>>
    /\ cpc = "idle"
    /\ srcQueries = 0
    /\ cursor = 0
    /\ rowsErr = FALSE
    /\ rowCount = 0
    /\ batchCount = 0
    /\ txOpen = FALSE
    /\ txRows = <<>>
    /\ txId = 0
    /\ stmtTx = 0
    /\ pendingErr = NoErr
    /\ retCount = 0
    /\ retErr = NoErr
    /\ begins = 0
    /\ commits = 0
    /\ rollbacks = 0
    /\ inserts = 0
    /\ commitLog = <<>>
    /\ selectCols = <<>>
    /\ insertCols = <<>>
    /\ placeholders = <<>>
    /\ values = <<>>
    /\ bound = <<>>
    /\ openTxs = {}
    /\ openCursors = 0

Init ==
    /\ batchSize \in 0..MaxBatch
    /\ truncateFlag \in BOOLEAN
    /\ FiltersOff
    /\ preserveCaseFlag = FALSE
    /\ DdlIdle
    /\ srcCatalog \in Catalogs
    /\ srcRows = [t \in AllTables |-> Unknown]
    /\ target \in [AllTables -> {<<>>, <<OldRow>>}]
    /\ \A t \in AllTables : t \notin {TblA, TblB} => target[t] = <<>>
    /\ target0 = target
    /\ RunStart

\* Runs with either setting of -preserve-case, one row per transaction, over
\* a source of two tables and an empty target.
InitStmt ==
    /\ batchSize = 1
    /\ truncateFlag \in BOOLEAN
    /\ FiltersOff
    /\ preserveCaseFlag \in BOOLEAN
    /\ DdlIdle
    /\ srcCatalog = <<TblA, TblB>>
    /\ srcRows = [t \in AllTables |-> Unknown]
    /\ target = [t \in AllTables |-> <<>>]
    /\ target0 = target
    /\ RunStart

\* Runs over a source of one table with any -batch-size from -1 up, zero and
\* negative values included, into a target that is empty or holds an old row.
InitCopy ==
    /\ batchSize \in (-1)..MaxBatch
    /\ truncateFlag \in BOOLEAN
    /\ FiltersOff
    /\ preserveCaseFlag = FALSE
    /\ DdlIdle
    /\ srcCatalog = <<TblA>>
    /\ srcRows = [t \in AllTables |-> Unknown]
    /\ target \in [AllTables -> {<<>>, <<OldRow>>}]
    /\ \A t \in AllTables : t # TblA => target[t] = <<>>
    /\ target0 = target
    /\ RunStart

\* the current table of main's range loop
CurTable == tables[idx]

\* where the range loop of main goes when it moves to position i
LoopHead(i, tbls) == IF i > Len(tbls) THEN "finished" ELSE "columns"


\* ---------------------------------------------------------------- main
Logged(op, t) == Append(mainLog, <<op, t>>)

\* main.go:375-378 with getSourceTables: the table-list query, its row loop,
\* and log.Fatalf on an error.  The loop `for rows.Next()` also ends when the
\* cursor fails; getSourceTables does not look at rows.Err() and returns the
\* tables read so far.
Discover ==
    /\ mpc = "discover"
    /\ \/ /\ mpc' = "fatal"                        \* db.Query or rows.Scan failed
          /\ UNCHANGED <<tables, tablesIterErr, idx>>
       \/ \E res \in {<<srcCatalog, FALSE>>}
                        \cup { <<p, TRUE>> : p \in ProperPrefixes(srcCatalog) } :
              /\ tables' = res[1]
              /\ tablesIterErr' = res[2]
              /\ mpc' = "sysfilter"
              /\ UNCHANGED idx
    /\ UNCHANGED <<fixedVars, storeVars, columns, colsIterErr, totalRows, mainLog, copyVars>>
    /\ UNCHANGED <<stmtVars, openTxs, openCursors>>

\* ---------------------------------------------------------------- table filters
\* the elements of seq at the positions in K, in order
RECURSIVE PickFrom(_, _, _)
PickFrom(seq, K, i) ==
    IF i > Len(seq) THEN <<>>
    ELSE (IF i \in K THEN <<seq[i]>> ELSE <<>>) \o PickFrom(seq, K, i + 1)

Pick(seq, K) == PickFrom(seq, K, 1)

\* main.go:384-394: a table is dropped when its name starts with "sys"
KeepSys(t) ==
    LET parts == Split(t)
    IN IF Len(parts) = 2 THEN ~HasPrefix(ToLower(parts[2]), <<"s", "y", "s">>) ELSE TRUE

\* main.go:380-397
SysFiltered(tbls, includeSys) ==
    IF includeSys THEN tbls ELSE SelectSeq(tbls, KeepSys)

\* an include test that tells upper case from lower case
Included_CaseSensitive(t, includeTables) ==
    \E k \in 1..Len(includeTables) : TrimSpace(includeTables[k]) = t

\* main.go:404-409: some entry of the include list names the table
Included(t, includeTables) ==
    \E k \in 1..Len(includeTables) : EqualFold(TrimSpace(includeTables[k]), t)

\* the tables of tbls from position i on, each once for every entry that names it
RECURSIVE OncePerEntry(_, _, _)
OncePerEntry(tbls, includeTables, i) ==
    IF i > Len(tbls) THEN <<>>
    ELSE [k \in 1..Cardinality({ e \in 1..Len(includeTables) :
                                    EqualFold(TrimSpace(includeTables[e]), tbls[i]) })
             |-> tbls[i]]
         \o OncePerEntry(tbls, includeTables, i + 1)

\* an include filter whose inner loop does not stop at the first match
IncludeFiltered_NoBreak(tbls, flag) ==
    IF flag = <<>> THEN tbls ELSE OncePerEntry(tbls, SplitBy(flag, ","), 1)

\* main.go:399-412
IncludeFiltered(tbls, flag) ==
    IF flag = <<>> THEN tbls
    ELSE Pick(tbls, { i \in 1..Len(tbls) : Included(tbls[i], SplitBy(flag, ",")) })

\* main.go:425-426: regexp.MatchString("^" + pattern with "*" as ".*" + "$", s).
\* In the regular expression "." stands for any character and the other
\* characters used here for themselves.
RECURSIVE GlobRegexMatch(_, _)
GlobRegexMatch(pattern, str) ==
    IF pattern = <<>> THEN str = <<>>
    ELSE IF Head(pattern) = "*"
         THEN \/ GlobRegexMatch(Tail(pattern), str)
              \/ str # <<>> /\ GlobRegexMatch(pattern, Tail(str))
    ELSE /\ str # <<>>
         /\ Head(pattern) = Dot \/ Head(pattern) = Head(str)
         /\ GlobRegexMatch(Tail(pattern), Tail(str))

\* main.go:420-437: some exclude pattern matches the table
Excluded(t, excludeTables) ==
    \E k \in 1..Len(excludeTables) :
        LET pattern == TrimSpace(excludeTables[k])
        IN IF Contains(pattern, "*") THEN GlobRegexMatch(pattern, t)
           ELSE EqualFold(pattern, t)

\* main.go:414-443
ExcludeFiltered(tbls, flag) ==
    IF flag = <<>> THEN tbls
    ELSE Pick(tbls, { i \in 1..Len(tbls) : ~Excluded(tbls[i], SplitBy(flag, ",")) })

\* main.go:380-397
SysFilter ==
    /\ mpc = "sysfilter"
    /\ tables' = SysFiltered(tables, includeSystemSchemasFlag)
    /\ mpc' = "include"
    /\ UNCHANGED <<fixedVars, storeVars, tablesIterErr, idx, columns, colsIterErr,
                   totalRows, mainLog, copyVars, stmtVars, openTxs, openCursors>>

\* main.go:399-412
IncludeFilter ==
    /\ mpc = "include"
    /\ tables' = IncludeFiltered(tables, tablesFlag)
    /\ mpc' = "exclude"
    /\ UNCHANGED <<fixedVars, storeVars, tablesIterErr, idx, columns, colsIterErr,
                   totalRows, mainLog, copyVars, stmtVars, openTxs, openCursors>>

\* main.go:414-443
ExcludeFilter ==
    /\ mpc = "exclude"
    /\ tables' = ExcludeFiltered(tables, excludeTablesFlag)
    /\ mpc' = "empty"
    /\ UNCHANGED <<fixedVars, storeVars, tablesIterErr, idx, columns, colsIterErr,
                   totalRows, mainLog, copyVars, stmtVars, openTxs, openCursors>>

\* A probe's outcome is <<ok, value>>: QueryRow(...).Scan failed, or it gave value.
ProbeFailed == <<FALSE, 0>>
ProbeValues == 0..(MaxRows + MaxSizeMB)

\* SELECT COUNT(1) on a source table
CountOutcomes(t) ==
    {ProbeFailed} \cup
    { <<TRUE, n>> : n \in (IF srcRows[t] = Unknown THEN 0..MaxRows ELSE {srcRows[t]}) }

\* the size estimate from sys.dm_db_partition_stats
SizeOutcomes(t) == {ProbeFailed} \cup { <<TRUE, n>> : n \in 0..MaxSizeMB }

\* SELECT COUNT(1) on a target table
TargetCountOutcomes(t) == {ProbeFailed, <<TRUE, Len(target[t])>>}

\* the outcomes of one filter's probes: one per table with a two-part name,
\* among those outcomesOf gives for the table
RECURSIVE ProbeResults(_, _)
ProbeResults(tbls, outcomesOf) ==
    IF tbls = <<>> THEN {<<>>}
    ELSE { <<o>> \o rest :
             o \in (IF ValidName(Head(tbls)) THEN outcomesOf[Head(tbls)] ELSE {ProbeFailed}),
             rest \in ProbeResults(Tail(tbls), outcomesOf) }

\* the tables a probing filter keeps: those it could not probe, and those whose
\* probed value is among the values that pass the filter's test
Survivors(tbls, out, passing) ==
    Pick(tbls, { i \in 1..Len(tbls) :
                   \/ ~ValidName(tbls[i])
                   \/ ~out[i][1]
                   \/ out[i][2] \in passing })

\* the probes a filter issued, and the warnings of those that failed
ProbesOf(stage, tbls, out) ==
    Pick([i \in 1..Len(tbls) |-> <<stage, tbls[i], out[i]>>],
         { i \in 1..Len(tbls) : ValidName(tbls[i]) })

WarningsOf(stage, tbls, out) ==
    Pick([i \in 1..Len(tbls) |-> <<stage, tbls[i]>>],
         { i \in 1..Len(tbls) : ValidName(tbls[i]) /\ ~out[i][1] })

\* the source row counts after the count probes are known
Observed(tbls, out) ==
    [t \in AllTables |->
        IF \E i \in 1..Len(tbls) : tbls[i] = t /\ ValidName(t) /\ out[i][1]
        THEN out[CHOOSE i \in 1..Len(tbls) : tbls[i] = t][2]
        ELSE srcRows[t]]

\* a test that lets an empty table through
KeepNonEmpty_OrZero(rowCount_) == rowCount_ >= 0

\* main.go:467
KeepNonEmpty(rowCount_) == rowCount_ > 0

\* main.go:445-474
EmptyFilter ==
    /\ mpc = "empty"
    /\ mpc' = "large"
    /\ IF excludeEmptyTablesFlag
       THEN \E out \in ProbeResults(tables, [t \in AllTables |-> CountOutcomes(t)]) :
              /\ tables' = Survivors(tables, out, { n \in ProbeValues : KeepNonEmpty(n) })
              /\ probeLog' = probeLog \o ProbesOf("empty", tables, out)
              /\ warnings' = warnings \o WarningsOf("empty", tables, out)
              /\ srcRows' = Observed(tables, out)
       ELSE UNCHANGED <<tables, probeLog, warnings, srcRows>>
    /\ UNCHANGED <<flagVars, filterFlagVars, srcCatalog, ddlVars, target, target0, tgtAtStart,
                   tablesIterErr, idx, columns, colsIterErr, totalRows, mainLog, copyVars,
                   stmtVars, openTxs, openCursors>>

\* a ceiling test that also drops a table exactly at the ceiling
KeepWithin_Strict(n, ceiling) == n < ceiling

\* main.go:498 and 536
KeepWithin(n, ceiling) == n <= ceiling

\* main.go:476-506
LargeFilter ==
    /\ mpc = "large"
    /\ mpc' = "size"
    /\ IF excludeLargeTablesFlag > 0
       THEN \E out \in ProbeResults(tables, [t \in AllTables |-> CountOutcomes(t)]) :
              /\ tables' = Survivors(tables, out,
                                   { n \in ProbeValues : KeepWithin(n, excludeLargeTablesFlag) })
              /\ probeLog' = probeLog \o ProbesOf("large", tables, out)
              /\ warnings' = warnings \o WarningsOf("large", tables, out)
              /\ srcRows' = Observed(tables, out)
       ELSE UNCHANGED <<tables, probeLog, warnings, srcRows>>
    /\ UNCHANGED <<flagVars, filterFlagVars, srcCatalog, ddlVars, target, target0, tgtAtStart,
                   tablesIterErr, idx, columns, colsIterErr, totalRows, mainLog, copyVars,
                   stmtVars, openTxs, openCursors>>

\* main.go:508-544
SizeFilter ==
    /\ mpc = "size"
    /\ mpc' = "skip"
    /\ IF maxTableSizeFlag > 0
       THEN \E out \in ProbeResults(tables, [t \in AllTables |-> SizeOutcomes(t)]) :
              /\ tables' = Survivors(tables, out,
                                   { n \in ProbeValues : KeepWithin(n, maxTableSizeFlag) })
              /\ probeLog' = probeLog \o ProbesOf("size", tables, out)
              /\ warnings' = warnings \o WarningsOf("size", tables, out)
       ELSE UNCHANGED <<tables, probeLog, warnings>>
    /\ UNCHANGED <<flagVars, filterFlagVars, srcCatalog, ddlVars, storeVars,
                   tablesIterErr, idx, columns, colsIterErr, totalRows, mainLog, copyVars,
                   stmtVars, openTxs, openCursors>>

\* no test at all: every probed table is kept
KeepUnpopulated_Always(rowCount_) == rowCount_ >= 0

\* the test turned round: a table is kept when the target holds rows
KeepUnpopulated_Inverted(rowCount_) == rowCount_ > 0

\* main.go:574
KeepUnpopulated(rowCount_) == rowCount_ = 0

\* the last filter asking about every discovered table
SkipFilter_ProbesAll ==
    /\ mpc = "skip"
    /\ IF skipIfExistsFlag
       THEN \E out \in ProbeResults(srcCatalog, [t \in AllTables |-> TargetCountOutcomes(t)]) :
              /\ tables' = Survivors(srcCatalog, out, { n \in ProbeValues : KeepUnpopulated(n) })
              /\ probeLog' = probeLog \o ProbesOf("skip", srcCatalog, out)
       ELSE UNCHANGED <<tables, probeLog>>
    /\ idx' = 1
    /\ mpc' = LoopHead(1, tables')
    /\ UNCHANGED <<flagVars, filterFlagVars, srcCatalog, ddlVars, warnings, storeVars,
                   tablesIterErr, columns, colsIterErr, totalRows, mainLog, copyVars,
                   stmtVars, openTxs, openCursors>>

\* main.go:546-583: the last filter; a failed probe is not logged.  The range
\* loop over the tables that are left starts after it.
SkipFilter ==
    /\ mpc = "skip"
    /\ IF skipIfExistsFlag
       THEN \E out \in ProbeResults(tables, [t \in AllTables |-> TargetCountOutcomes(t)]) :
              /\ tables' = Survivors(tables, out, { n \in ProbeValues : KeepUnpopulated(n) })
              /\ probeLog' = probeLog \o ProbesOf("skip", tables, out)
       ELSE UNCHANGED <<tables, probeLog>>
    /\ idx' = 1
    /\ mpc' = LoopHead(1, tables')
    /\ UNCHANGED <<flagVars, filterFlagVars, srcCatalog, ddlVars, warnings, storeVars,
                   tablesIterErr, columns, colsIterErr, totalRows, mainLog, copyVars,
                   stmtVars, openTxs, openCursors>>

\* main.go:593-596 with getTableColumns: name check, metadata query, row loop.
\* As in getSourceTables the loop's end is taken as the end of the list whether
\* or not the cursor failed.
GetTableColumns ==
    /\ mpc = "columns"
    /\ IF ~ValidName(CurTable)
       THEN /\ mpc' = "fatal"
            /\ mainLog' = Logged("getcols", CurTable)
            /\ UNCHANGED <<columns, colsIterErr, cpc>>
       ELSE /\ mainLog' = Append(Logged("getcols", CurTable), <<"colquery", CurTable>>)
            /\ \/ /\ mpc' = "fatal"                \* db.Query or rows.Scan failed
                  /\ UNCHANGED <<columns, colsIterErr, cpc>>
               \/ /\ columns' \in ColumnLists
                  /\ colsIterErr' \in BOOLEAN
                  /\ mpc' = IF truncateFlag THEN "truncate" ELSE "copy"
                  /\ cpc' = IF truncateFlag THEN cpc ELSE "start"
    /\ UNCHANGED <<fixedVars, storeVars, tables, tablesIterErr, idx, totalRows>>
    /\ UNCHANGED <<srcQueries, cursor, rowsErr, rowCount, batchCount, txOpen, txRows,
                   txId, stmtTx, pendingErr, retCount, retErr, begins, commits,
                   rollbacks, inserts, commitLog>>
    /\ UNCHANGED <<stmtVars, openTxs, openCursors>>

\* a truncate whose failure ends the run
Truncate_FatalOnError ==
    /\ mpc = "truncate"
    /\ IF ~ValidName(CurTable)
       THEN /\ idx' = idx + 1
            /\ mpc' = LoopHead(idx + 1, tables)
            /\ warnings' = Append(warnings, <<"name", CurTable>>)
            /\ UNCHANGED <<target, mainLog, cpc>>
       ELSE /\ mainLog' = Logged("truncate", CurTable)
            /\ \/ /\ target' = [target EXCEPT ![CurTable] = <<>>]
                  /\ mpc' = "copy"
                  /\ cpc' = "start"
                  /\ UNCHANGED warnings
               \/ /\ warnings' = Append(warnings, <<"truncate", CurTable>>)
                  /\ mpc' = "fatal"
                  /\ UNCHANGED <<target, cpc>>
            /\ UNCHANGED idx
    /\ UNCHANGED <<flagVars, filterFlagVars, srcCatalog, probeLog, ddlVars, srcRows, target0,
                   tgtAtStart, tables, tablesIterErr, columns, colsIterErr, totalRows>>
    /\ UNCHANGED <<srcQueries, cursor, rowsErr, rowCount, batchCount, txOpen, txRows,
                   txId, stmtTx, pendingErr, retCount, retErr, begins, commits,
                   rollbacks, inserts, commitLog>>
    /\ UNCHANGED <<stmtVars, openTxs, openCursors>>

\* main.go:598-621: TRUNCATE TABLE on the target; a failure is only a warning,
\* and so is a table name without two parts, which ends the table's turn.
Truncate ==
    /\ mpc = "truncate"
    /\ IF ~ValidName(CurTable)
       THEN /\ idx' = idx + 1                      \* continue
            /\ mpc' = LoopHead(idx + 1, tables)
            /\ warnings' = Append(warnings, <<"name", CurTable>>)
            /\ UNCHANGED <<target, mainLog, cpc>>
       ELSE /\ mainLog' = Logged("truncate", CurTable)
            /\ \E ok \in BOOLEAN :
                 /\ target' = IF ok THEN [target EXCEPT ![CurTable] = <<>>] ELSE target
                 /\ warnings' = IF ok THEN warnings
                                ELSE Append(warnings, <<"truncate", CurTable>>)
            /\ mpc' = "copy"
            /\ cpc' = "start"
            /\ UNCHANGED idx
    /\ UNCHANGED <<flagVars, filterFlagVars, srcCatalog, probeLog, ddlVars, srcRows, target0,
                   tgtAtStart, tables, tablesIterErr, columns, colsIterErr, totalRows>>
    /\ UNCHANGED <<srcQueries, cursor, rowsErr, rowCount, batchCount, txOpen, txRows,
                   txId, stmtTx, pendingErr, retCount, retErr, begins, commits,
                   rollbacks, inserts, commitLog>>
    /\ UNCHANGED <<stmtVars, openTxs, openCursors>>

\* a caller that skips a failed table and goes on with the next one
AfterCopy_Continue ==
    /\ mpc = "copy"
    /\ cpc = "ret"
    /\ totalRows' = IF retErr # NoErr THEN totalRows ELSE totalRows + retCount
    /\ idx' = idx + 1
    /\ mpc' = LoopHead(idx + 1, tables)
    /\ cpc' = "idle"
    /\ UNCHANGED <<fixedVars, storeVars, tables, tablesIterErr, columns, colsIterErr, mainLog>>
    /\ UNCHANGED <<srcQueries, cursor, rowsErr, rowCount, batchCount, txOpen, txRows,
                   txId, stmtTx, pendingErr, retCount, retErr, begins, commits,
                   rollbacks, inserts, commitLog>>
    /\ UNCHANGED <<stmtVars, openTxs, openCursors>>

\* main.go:624-631: the return of migrateTableData; an error is fatal.
AfterCopy ==
    /\ mpc = "copy"
    /\ cpc = "ret"
    /\ IF retErr # NoErr
       THEN /\ mpc' = "fatal"
            /\ UNCHANGED <<totalRows, idx>>
       ELSE /\ totalRows' = totalRows + retCount
            /\ idx' = idx + 1
            /\ mpc' = LoopHead(idx + 1, tables)
    /\ cpc' = "idle"
    /\ UNCHANGED <<fixedVars, storeVars, tables, tablesIterErr, columns, colsIterErr, mainLog>>
    /\ UNCHANGED <<srcQueries, cursor, rowsErr, rowCount, batchCount, txOpen, txRows,
                   txId, stmtTx, pendingErr, retCount, retErr, begins, commits,
                   rollbacks, inserts, commitLog>>
    /\ UNCHANGED <<stmtVars, openTxs, openCursors>>

\* ---------------------------------------------------------------- migrateTableData
\* A return of migrateTableData; the deferred stmt.Close() runs with it.
Return(cnt, err) ==
    /\ cpc' = "ret"
    /\ retCount' = cnt
    /\ retErr' = err
    /\ stmtTx' = 0

\* a return after the source cursor was opened: the deferred rows.Close() runs too
ReturnClosing(cnt, err) ==
    /\ Return(cnt, err)
    /\ openCursors' = openCursors - 1

\* the transaction tx refers to, as the target store knows it
CurTx == <<CurTable, txId>>

\* the target store after the rows of the open transaction are committed
Committed(t) == [target EXCEPT ![t] = target[t] \o txRows]

\* main.go:735: the SQL Server form of a column name
Bracket(col) == <<"[">> \o col \o <<"]">>

\* main.go:729-733: the PostgreSQL form of a column name
InsertColumn(col, preserveCase) ==
    IF preserveCase THEN <<"\"">> \o col \o <<"\"">> ELSE col

\* a placeholder numbered from 0 as the loop index is
Placeholder_ZeroBased(i) == <<"$", Digit(i - 1)>>

\* main.go:736: the placeholder of the i-th column (i counted from 1)
Placeholder(i) == <<"$", Digit(i)>>

\* main.go:722-737: the three lists built from columns
SelectList(cols) == [i \in 1..Len(cols) |-> Bracket(cols[i])]
InsertList(cols, preserveCase) == [i \in 1..Len(cols) |-> InsertColumn(cols[i], preserveCase)]
Placeholders(cols) == [i \in 1..Len(cols) |-> Placeholder(i)]

\* the column a bracketed select item names in the source
SourceColumn(item) == SubSeq(item, 2, Len(item) - 1)

\* the column an insert list item names in the target: a quoted identifier as
\* written, an unquoted one folded to lower case
TargetColumn(item) ==
    IF item # <<>> /\ Head(item) = "\"" THEN SubSeq(item, 2, Len(item) - 1) ELSE ToLower(item)

\* the cell of source row r in column c
Cell(r, c) == <<r, c>>

\* the argument number a placeholder stands for
ArgIndex(ph) == CHOOSE n \in 0..9 : Digit(n) = ph[2]

\* main.go:713-767: name check, building the statements, sourceDb.Query.
\* A SELECT with an empty select list is not valid SQL: the source rejects it.
CopyQuery ==
    /\ mpc = "copy"
    /\ cpc = "start"
    /\ mainLog' = Logged("copy", CurTable)
    /\ cursor' = 0
    /\ rowsErr' = FALSE
    /\ rowCount' = 0
    /\ batchCount' = 0
    /\ txOpen' = FALSE
    /\ txRows' = <<>>
    /\ txId' = 0
    /\ pendingErr' = NoErr
    /\ begins' = 0
    /\ commits' = 0
    /\ rollbacks' = 0
    /\ inserts' = 0
    /\ commitLog' = <<>>
    /\ tgtAtStart' = target[CurTable]
    /\ values' = <<>>
    /\ bound' = <<>>
    /\ UNCHANGED openTxs
    /\ IF ~ValidName(CurTable)
       THEN /\ srcQueries' = 0
            /\ Return(0, "config")
            /\ selectCols' = <<>>
            /\ insertCols' = <<>>
            /\ placeholders' = <<>>
            /\ UNCHANGED <<srcRows, openCursors>>
       ELSE /\ srcQueries' = 1
            /\ selectCols' = SelectList(columns)
            /\ insertCols' = InsertList(columns, preserveCaseFlag)
            /\ placeholders' = Placeholders(columns)
            /\ \/ /\ Return(0, "query")
                  /\ UNCHANGED <<srcRows, openCursors>>
               \/ /\ columns # <<>>
                  /\ openCursors' = openCursors + 1
                  /\ IF srcRows[CurTable] = Unknown
                     THEN \E n \in 0..MaxRows : srcRows' = [srcRows EXCEPT ![CurTable] = n]
                     ELSE UNCHANGED srcRows
                  /\ cpc' = "begin"
                  /\ stmtTx' = 0
                  /\ retCount' = 0
                  /\ retErr' = NoErr
    /\ UNCHANGED <<fixedVars, target, target0, mpc, tables, tablesIterErr, idx, columns,
                   colsIterErr, totalRows>>

\* main.go:775-779: targetDb.Begin()
CopyBegin ==
    /\ cpc = "begin"
    /\ \/ /\ ReturnClosing(0, "begin")
          /\ UNCHANGED <<txOpen, txId, begins, openTxs>>
       \/ /\ txOpen' = TRUE
          /\ openTxs' = openTxs \cup {<<CurTable, txId + 1>>}
          /\ UNCHANGED openCursors
          /\ txId' = txId + 1
          /\ begins' = begins + 1
          /\ cpc' = "prepare"
          /\ UNCHANGED <<retCount, retErr, stmtTx>>
    /\ UNCHANGED <<fixedVars, storeVars, mainVars, srcQueries, cursor, rowsErr, rowCount,
                   batchCount, txRows, pendingErr, commits, rollbacks, inserts, commitLog>>
    /\ UNCHANGED stmtVars

\* main.go:781-787: tx.Prepare(insertQuery)
CopyPrepare ==
    /\ cpc = "prepare"
    /\ \/ /\ pendingErr' = "prepare"
          /\ cpc' = "rollback"
          /\ UNCHANGED stmtTx
       \/ /\ stmtTx' = txId
          /\ cpc' = "next"
          /\ UNCHANGED pendingErr
    /\ UNCHANGED <<fixedVars, storeVars, mainVars, srcQueries, cursor, rowsErr, rowCount,
                   batchCount, txOpen, txRows, txId, retCount, retErr, begins, commits,
                   rollbacks, inserts, commitLog>>
    /\ UNCHANGED <<stmtVars, openTxs, openCursors>>

\* main.go:789: rows.Next().  It returns false when the rows are exhausted and
\* also when the cursor fails; the error stays in rows.Err().
CopyNext ==
    /\ cpc = "next"
    /\ \/ /\ cursor < srcRows[CurTable]
          /\ cursor' = cursor + 1
          /\ cpc' = "scan"
          /\ UNCHANGED rowsErr
       \/ /\ cursor = srcRows[CurTable]
          /\ cpc' = "final"
          /\ UNCHANGED <<cursor, rowsErr>>
       \/ /\ cursor < srcRows[CurTable]
          /\ rowsErr' = TRUE
          /\ cpc' = "final"
          /\ UNCHANGED cursor
    /\ UNCHANGED <<fixedVars, storeVars, mainVars, srcQueries, rowCount, batchCount, txOpen,
                   txRows, txId, stmtTx, pendingErr, retCount, retErr, begins, commits,
                   rollbacks, inserts, commitLog>>
    /\ UNCHANGED <<stmtVars, openTxs, openCursors>>

\* main.go:790-803: rows.Scan(valuePtrs...)
CopyScan ==
    /\ cpc = "scan"
    /\ \/ /\ pendingErr' = "scan"
          /\ cpc' = "rollback"
          /\ UNCHANGED values
       \/ /\ cpc' = "exec"
          /\ values' = [i \in 1..Len(columns) |->
                           Cell(SourceRows(srcRows[CurTable])[cursor], SourceColumn(selectCols[i]))]
          /\ UNCHANGED pendingErr
    /\ UNCHANGED <<fixedVars, storeVars, mainVars, srcQueries, cursor, rowsErr, rowCount,
                   batchCount, txOpen, txRows, txId, stmtTx, retCount, retErr, begins,
                   commits, rollbacks, inserts, commitLog>>
    /\ UNCHANGED <<selectCols, insertCols, placeholders, bound, openTxs, openCursors>>

\* a batch test that takes a size of 0 or less as "no batching"
BatchFull_PositiveOnly(cnt, size) == size > 0 /\ cnt >= size

\* a batch test that lets one row too many into the batch
BatchFull_Gt(cnt, size) == cnt > size

\* the test of main.go:816
BatchFull(cnt, size) == cnt >= size

\* main.go:805-816: stmt.Exec(values...), the counters, the batch test
CopyExec ==
    /\ cpc = "exec"
    /\ \/ /\ pendingErr' = "insert"
          /\ cpc' = "rollback"
          /\ UNCHANGED <<txRows, inserts, rowCount, batchCount, bound>>
       \/ /\ txRows' = Append(txRows, SourceRows(srcRows[CurTable])[cursor])
          /\ bound' = [i \in 1..Len(insertCols) |->
                          <<TargetColumn(insertCols[i]),
                            IF ArgIndex(placeholders[i]) \in DOMAIN values
                            THEN values[ArgIndex(placeholders[i])] ELSE <<>> >>]
          /\ inserts' = inserts + 1
          /\ rowCount' = rowCount + 1
          /\ batchCount' = batchCount + 1
          /\ cpc' = IF BatchFull(batchCount + 1, batchSize) THEN "commit" ELSE "next"
          /\ UNCHANGED pendingErr
    /\ UNCHANGED <<fixedVars, storeVars, mainVars, srcQueries, cursor, rowsErr, txOpen, txId,
                   stmtTx, retCount, retErr, begins, commits, rollbacks, commitLog>>
    /\ UNCHANGED <<selectCols, insertCols, placeholders, values, openTxs, openCursors>>

\* a commit that also closes the statement of the committed transaction
CopyCommit_ClosesStmt ==
    /\ cpc = "commit"
    /\ txOpen' = FALSE
    /\ txRows' = <<>>
    /\ openTxs' = openTxs \ {CurTx}
    /\ \/ /\ ReturnClosing(rowCount, "commit")
          /\ UNCHANGED <<target, commits, commitLog>>
       \/ /\ target' = Committed(CurTable)
          /\ commits' = commits + 1
          /\ commitLog' = Append(commitLog, Len(txRows))
          /\ cpc' = "rebegin"
          /\ stmtTx' = 0
          /\ UNCHANGED <<retCount, retErr, openCursors>>
    /\ UNCHANGED <<fixedVars, srcRows, target0, tgtAtStart, mainVars, srcQueries, cursor, rowsErr,
                   rowCount, batchCount, txId, pendingErr, begins, rollbacks, inserts>>
    /\ UNCHANGED stmtVars

\* main.go:817-821: tx.Commit() of a full batch.  A failed commit ends the
\* transaction without making its rows visible.
CopyCommit ==
    /\ cpc = "commit"
    /\ txOpen' = FALSE
    /\ txRows' = <<>>
    /\ openTxs' = openTxs \ {CurTx}
    /\ \/ /\ ReturnClosing(rowCount, "commit")
          /\ UNCHANGED <<target, commits, commitLog>>
       \/ /\ target' = Committed(CurTable)
          /\ commits' = commits + 1
          /\ commitLog' = Append(commitLog, Len(txRows))
          /\ cpc' = "rebegin"
          /\ UNCHANGED <<retCount, retErr, stmtTx, openCursors>>
    /\ UNCHANGED <<fixedVars, srcRows, target0, tgtAtStart, mainVars, srcQueries, cursor, rowsErr,
                   rowCount, batchCount, txId, pendingErr, begins, rollbacks, inserts>>
    /\ UNCHANGED stmtVars

\* main.go:823-827: targetDb.Begin() for the next batch
CopyRebegin ==
    /\ cpc = "rebegin"
    /\ \/ /\ ReturnClosing(rowCount, "begin")
          /\ UNCHANGED <<txOpen, txId, begins, openTxs>>
       \/ /\ txOpen' = TRUE
          /\ openTxs' = openTxs \cup {<<CurTable, txId + 1>>}
          /\ UNCHANGED openCursors
          /\ txId' = txId + 1
          /\ begins' = begins + 1
          /\ cpc' = "reprepare"
          /\ UNCHANGED <<retCount, retErr, stmtTx>>
    /\ UNCHANGED <<fixedVars, storeVars, mainVars, srcQueries, cursor, rowsErr, rowCount,
                   batchCount, txRows, pendingErr, commits, rollbacks, inserts, commitLog>>
    /\ UNCHANGED stmtVars

\* a boundary that goes on with the statement of the committed transaction
CopyReprepare_KeepsStmt ==
    /\ cpc = "reprepare"
    /\ batchCount' = 0
    /\ cpc' = "next"
    /\ UNCHANGED <<stmtTx, pendingErr>>
    /\ UNCHANGED <<fixedVars, storeVars, mainVars, srcQueries, cursor, rowsErr, rowCount,
                   txOpen, txRows, txId, retCount, retErr, begins, commits, rollbacks,
                   inserts, commitLog>>
    /\ UNCHANGED <<stmtVars, openTxs, openCursors>>

\* main.go:829-837: stmt.Close(), tx.Prepare(insertQuery), batchCount = 0
CopyReprepare ==
    /\ cpc = "reprepare"
    /\ \/ /\ stmtTx' = 0
          /\ pendingErr' = "prepare"
          /\ cpc' = "rollback"
          /\ UNCHANGED batchCount
       \/ /\ stmtTx' = txId
          /\ batchCount' = 0
          /\ cpc' = "next"
          /\ UNCHANGED pendingErr
    /\ UNCHANGED <<fixedVars, storeVars, mainVars, srcQueries, cursor, rowsErr, rowCount,
                   txOpen, txRows, txId, retCount, retErr, begins, commits, rollbacks,
                   inserts, commitLog>>
    /\ UNCHANGED <<stmtVars, openTxs, openCursors>>

\* a rollback that leaves the rows of the transaction in the table
RolledBack_Commits(t) == Committed(t)

\* the target store after tx.Rollback(): the rows of the transaction are dropped
RolledBack(t) == target

\* an error path that drops the failed batch and goes on with the next row
CopyRollback_SkipRow ==
    /\ cpc = "rollback"
    /\ txRows' = <<>>
    /\ rollbacks' = rollbacks + 1
    /\ target' = RolledBack(CurTable)
    /\ cpc' = "next"
    /\ UNCHANGED <<fixedVars, srcRows, target0, tgtAtStart, mainVars, srcQueries, cursor,
                   rowsErr, rowCount, batchCount, txOpen, txId, stmtTx, pendingErr,
                   retCount, retErr, begins, commits, inserts, commitLog>>
    /\ UNCHANGED <<stmtVars, openTxs, openCursors>>

\* main.go:800-802, 807-809, 783-785, 832-834: tx.Rollback() and the error return
CopyRollback ==
    /\ cpc = "rollback"
    /\ txOpen' = FALSE
    /\ txRows' = <<>>
    /\ rollbacks' = rollbacks + 1
    /\ target' = RolledBack(CurTable)
    /\ openTxs' = openTxs \ {CurTx}
    /\ ReturnClosing(rowCount, pendingErr)
    /\ UNCHANGED <<fixedVars, srcRows, target0, tgtAtStart, mainVars, srcQueries, cursor, rowsErr, rowCount,
                   batchCount, txId, pendingErr, begins, commits, inserts, commitLog>>
    /\ UNCHANGED stmtVars

\* a return that leaves the empty trailing transaction open
CopyFinal_NoRollback ==
    /\ cpc = "final"
    /\ txOpen' = FALSE
    /\ txRows' = <<>>
    /\ IF batchCount > 0
       THEN /\ openTxs' = openTxs \ {CurTx}
            /\ \/ /\ ReturnClosing(rowCount, "commit")
                  /\ UNCHANGED <<target, commits, commitLog, rollbacks>>
               \/ /\ target' = Committed(CurTable)
                  /\ commits' = commits + 1
                  /\ commitLog' = Append(commitLog, Len(txRows))
                  /\ ReturnClosing(rowCount, NoErr)
                  /\ UNCHANGED rollbacks
       ELSE /\ ReturnClosing(rowCount, NoErr)
            /\ UNCHANGED <<target, commits, commitLog, rollbacks, openTxs>>
    /\ UNCHANGED <<fixedVars, srcRows, target0, tgtAtStart, mainVars, srcQueries, cursor, rowsErr,
                   rowCount, batchCount, txId, pendingErr, begins, inserts>>
    /\ UNCHANGED stmtVars

\* main.go:841-851: after the row loop, commit the last batch or roll back the
\* empty transaction, and return rowCount with no error.
CopyFinal ==
    /\ cpc = "final"
    /\ txOpen' = FALSE
    /\ txRows' = <<>>
    /\ openTxs' = openTxs \ {CurTx}
    /\ IF batchCount > 0
       THEN \/ /\ ReturnClosing(rowCount, "commit")
               /\ UNCHANGED <<target, commits, commitLog, rollbacks>>
            \/ /\ target' = Committed(CurTable)
               /\ commits' = commits + 1
               /\ commitLog' = Append(commitLog, Len(txRows))
               /\ ReturnClosing(rowCount, NoErr)
               /\ UNCHANGED rollbacks
       ELSE /\ rollbacks' = rollbacks + 1
            /\ ReturnClosing(rowCount, NoErr)
            /\ UNCHANGED <<target, commits, commitLog>>
    /\ UNCHANGED <<fixedVars, srcRows, target0, tgtAtStart, mainVars, srcQueries, cursor, rowsErr,
                   rowCount, batchCount, txId, pendingErr, begins, inserts>>
    /\ UNCHANGED stmtVars

Next ==
    \/ Discover
    \/ SysFilter
    \/ IncludeFilter
    \/ ExcludeFilter
    \/ EmptyFilter
    \/ LargeFilter
    \/ SizeFilter
    \/ SkipFilter
    \/ GetTableColumns
    \/ Truncate
    \/ AfterCopy
    \/ CopyQuery
    \/ CopyBegin
    \/ CopyPrepare
    \/ CopyNext
    \/ CopyScan
    \/ CopyExec
    \/ CopyCommit
    \/ CopyRebegin
    \/ CopyReprepare
    \/ CopyRollback
    \/ CopyFinal

Spec == Init /\ [][Next]_vars

SpecStmt == InitStmt /\ [][Next]_vars

SpecCopy == InitCopy /\ [][Next]_vars

\* ---------------------------------------------------------------- the filters alone
\* Runs with any choice of the four probing filters, as far as the last filter.
InitProbes ==
    /\ batchSize = 1
    /\ truncateFlag \in BOOLEAN
    /\ tablesFlag = <<>>
    /\ excludeTablesFlag = <<>>
    /\ includeSystemSchemasFlag = FALSE
    /\ excludeEmptyTablesFlag \in BOOLEAN
    /\ excludeLargeTablesFlag \in 0..MaxCeiling
    /\ maxTableSizeFlag \in 0..MaxCeiling
    /\ skipIfExistsFlag \in BOOLEAN
    /\ preserveCaseFlag = FALSE
    /\ DdlIdle
    /\ srcCatalog \in Catalogs
    /\ srcRows = [t \in AllTables |-> Unknown]
    /\ target \in [AllTables -> {<<>>, <<OldRow>>}]
    /\ \A t \in AllTables : t \notin {TblA, TblB} => target[t] = <<>>
    /\ target0 = target
    /\ RunStart

NextProbes ==
    \/ Discover
    \/ SysFilter
    \/ IncludeFilter
    \/ ExcludeFilter
    \/ EmptyFilter
    \/ LargeFilter
    \/ SizeFilter
    \/ SkipFilter

SpecProbes == InitProbes /\ [][NextProbes]_vars

\* Whole runs with the empty-table filter on and the other filters off, one
\* row per transaction, into an empty target.
InitEmpty ==
    /\ batchSize = 1
    /\ truncateFlag \in BOOLEAN
    /\ tablesFlag = <<>>
    /\ excludeTablesFlag = <<>>
    /\ includeSystemSchemasFlag = FALSE
    /\ excludeEmptyTablesFlag = TRUE
    /\ excludeLargeTablesFlag = 0
    /\ maxTableSizeFlag = 0
    /\ skipIfExistsFlag = FALSE
    /\ preserveCaseFlag = FALSE
    /\ DdlIdle
    /\ srcCatalog \in Catalogs
    /\ srcRows = [t \in AllTables |-> Unknown]
    /\ target = [t \in AllTables |-> <<>>]
    /\ target0 = target
    /\ RunStart

SpecEmpty == InitEmpty /\ [][Next]_vars

\* Runs as far as the last filter with all four probing filters on and a
\* choice of name filters: an include list that names a table twice, an
\* exclude pattern.
DoubleInclude == <<"d", Dot, "a", ",", " ", "D", Dot, "A", ",", "d", Dot, "b">>
ExcludeGlob == <<"*", Dot, "c">>

InitFilters ==
    /\ batchSize = 1
    /\ truncateFlag = FALSE
    /\ tablesFlag \in {<<>>, DoubleInclude}
    /\ excludeTablesFlag \in {<<>>, ExcludeGlob}
    /\ includeSystemSchemasFlag = FALSE
    /\ excludeEmptyTablesFlag = TRUE
    /\ excludeLargeTablesFlag = MaxCeiling
    /\ maxTableSizeFlag = MaxCeiling
    /\ skipIfExistsFlag = TRUE
    /\ preserveCaseFlag = FALSE
    /\ DdlIdle
    /\ srcCatalog \in Catalogs
    /\ srcRows = [t \in AllTables |-> Unknown]
    /\ target \in [AllTables -> {<<>>, <<OldRow>>}]
    /\ \A t \in AllTables : t \notin {TblA, TblB} => target[t] = <<>>
    /\ target0 = target
    /\ RunStart

SpecFilters == InitFilters /\ [][NextProbes]_vars

\* Whole runs with every filter on, one row per transaction, into an empty
\* target, from tables of known sizes.
InitOrder ==
    /\ batchSize = 1
    /\ truncateFlag \in BOOLEAN
    /\ tablesFlag = DoubleInclude
    /\ excludeTablesFlag = ExcludeGlob
    /\ includeSystemSchemasFlag = FALSE
    /\ excludeEmptyTablesFlag = TRUE
    /\ excludeLargeTablesFlag = MaxCeiling
    /\ maxTableSizeFlag = MaxCeiling
    /\ skipIfExistsFlag = TRUE
    /\ preserveCaseFlag = FALSE
    /\ DdlIdle
    /\ srcCatalog = <<TblA, TblB, TblBC>>
    /\ srcRows \in [AllTables -> 0..MaxBatch]
    /\ srcRows[TblB] = 0 /\ srcRows[TblBC] = 0
    /\ target = [t \in AllTables |-> <<>>]
    /\ target0 = target
    /\ RunStart

SpecOrder == InitOrder /\ [][Next]_vars

\* Whole runs with -truncate and -skip-if-exists into a target whose tables may
\* hold a row, one row per transaction.
InitGuard ==
    /\ batchSize = 1
    /\ truncateFlag = TRUE
    /\ tablesFlag = <<>>
    /\ excludeTablesFlag = <<>>
    /\ includeSystemSchemasFlag = FALSE
    /\ excludeEmptyTablesFlag = FALSE
    /\ excludeLargeTablesFlag = 0
    /\ maxTableSizeFlag = 0
    /\ skipIfExistsFlag = TRUE
    /\ preserveCaseFlag = FALSE
    /\ DdlIdle
    /\ srcCatalog = <<TblA, TblB>>
    /\ srcRows \in [AllTables -> 0..MaxBatch]
    /\ srcRows[TblBC] = 0
    /\ target \in [AllTables -> {<<>>, <<OldRow>>}]
    /\ target[TblBC] = <<>>
    /\ target0 = target
    /\ RunStart

SpecGuard == InitGuard /\ [][Next]_vars

\* ---------------------------------------------------------------- the re-run
\* the run is a second run of the tool
IsRerun == mainLog # <<>> /\ mainLog[1][1] = "rerun"

\* After log.Fatalf has ended a run on a failed copy (main.go:624-627) the tool
\* is started again, with or without -truncate and -skip-if-exists (main.go:
\* 72-91): main starts afresh, the two databases are as the first run left
\* them.  The log of the second run starts with the table the first failed on.
Rerun ==
    /\ mpc = "fatal"
    /\ retErr # NoErr
    /\ ~ IsRerun
    /\ truncateFlag' \in BOOLEAN
    /\ skipIfExistsFlag' \in BOOLEAN
    /\ target0' = target
    /\ mainLog' = <<<<"rerun", CurTable>>>>
    /\ tgtAtStart' = <<>>
    /\ mpc' = "discover"
    /\ tables' = <<>>
    /\ tablesIterErr' = FALSE
    /\ idx' = 0
    /\ columns' = <<>>
    /\ colsIterErr' = FALSE
    /\ totalRows' = 0
    /\ probeLog' = <<>>
    /\ warnings' = <<>>
    /\ cpc' = "idle"
    /\ srcQueries' = 0
    /\ cursor' = 0
    /\ rowsErr' = FALSE
    /\ rowCount' = 0
    /\ batchCount' = 0
    /\ txOpen' = FALSE
    /\ txRows' = <<>>
    /\ txId' = 0
    /\ stmtTx' = 0
    /\ pendingErr' = NoErr
    /\ retCount' = 0
    /\ retErr' = NoErr
    /\ begins' = 0
    /\ commits' = 0
    /\ rollbacks' = 0
    /\ inserts' = 0
    /\ commitLog' = <<>>
    /\ selectCols' = <<>>
    /\ insertCols' = <<>>
    /\ placeholders' = <<>>
    /\ values' = <<>>
    /\ bound' = <<>>
    /\ openTxs' = {}
    /\ openCursors' = 0
    /\ UNCHANGED <<batchSize, tablesFlag, excludeTablesFlag, excludeEmptyTablesFlag,
                   excludeLargeTablesFlag, maxTableSizeFlag, includeSystemSchemasFlag,
                   preserveCaseFlag, srcCatalog, ddlVars, srcRows, target>>

\* A first run with the filters off into an empty target, of a source with two
\* tables of known sizes, and the run after it.
InitRerun ==
    /\ batchSize \in 1..MaxBatch
    /\ truncateFlag = FALSE
    /\ FiltersOff
    /\ preserveCaseFlag = FALSE
    /\ DdlIdle
    /\ srcCatalog = <<TblA, TblB>>
    /\ srcRows \in [AllTables -> 0..(MaxRows - 1)]
    /\ srcRows[TblA] <= 1
    /\ srcRows[TblB] >= 2
    /\ srcRows[TblBC] = 0
    /\ target = [t \in AllTables |-> <<>>]
    /\ target0 = target
    /\ RunStart

NextRerun == Next \/ Rerun

SpecRerun == InitRerun /\ [][NextRerun]_vars

\* ---------------------------------------------------------------- the name filters
\* The tables of a source whose selected schema is dbo, in the order of the
\* table-list query.
Dbo == <<"d", "b", "o">>
TblCustomer == QualifiedName(Dbo, <<"C", "u", "s", "t", "o", "m", "e", "r">>)
TblLog2024 == QualifiedName(Dbo, <<"l", "o", "g", "_", "2", "0", "2", "4">>)
TblLogEvents == QualifiedName(Dbo, <<"l", "o", "g", "_", "e", "v", "e", "n", "t", "s">>)
TblMylogEvents == QualifiedName(Dbo, <<"m", "y", "l", "o", "g", "_", "e", "v", "e", "n", "t", "s">>)
TblProduct == QualifiedName(Dbo, <<"P", "r", "o", "d", "u", "c", "t">>)
TblSysdiagrams == QualifiedName(Dbo, <<"s", "y", "s", "d", "i", "a", "g", "r", "a", "m", "s">>)

NameCatalog ==
    <<TblCustomer, TblLog2024, TblLogEvents, TblMylogEvents, TblProduct, TblSysdiagrams>>

\* the sources that hold some of these tables
NameCatalogs == { Pick(NameCatalog, K) : K \in SUBSET (1..Len(NameCatalog)) }

\* values of -tables: none, the README's bare names, qualified names in other
\* case and with blanks
BareNames == <<"C", "u", "s", "t", "o", "m", "e", "r", ",", "P", "r", "o", "d", "u", "c", "t", ",", "O", "r", "d", "e", "r">>
IncludeFlags ==
    { <<>>,
      BareNames,
      <<"d", "b", "o", Dot, "C", "u", "s", "t", "o", "m", "e", "r", ",", " ", "D", "B", "O", Dot, "P", "R", "O", "D", "U", "C", "T">>,
      <<" ", "d", "b", "o", Dot, "l", "o", "g", "_", "e", "v", "e", "n", "t", "s", " ">> }

\* values of -exclude-tables: none, the README's pattern, the pattern with the
\* schema, an exact name in other case, a list
LogGlob == <<"l", "o", "g", "_", "*">>
ExcludeFlags ==
    { <<>>,
      LogGlob,
      <<"d", "b", "o", Dot, "l", "o", "g", "_", "*">>,
      <<"D", "B", "O", Dot, "C", "u", "s", "t", "o", "m", "e", "r">>,
      <<"*", "_", "e", "v", "e", "n", "t", "s", ",", " ", "d", "b", "o", Dot, "p", "r", "o", "d", "u", "c", "t">> }

\* a run as far as the name filters, with the other filters off
InitNames ==
    /\ batchSize = 1
    /\ truncateFlag = FALSE
    /\ tablesFlag \in IncludeFlags
    /\ excludeTablesFlag \in ExcludeFlags
    /\ includeSystemSchemasFlag \in BOOLEAN
    /\ excludeEmptyTablesFlag = FALSE
    /\ excludeLargeTablesFlag = 0
    /\ maxTableSizeFlag = 0
    /\ skipIfExistsFlag = FALSE
    /\ preserveCaseFlag = FALSE
    /\ DdlIdle
    /\ srcCatalog \in NameCatalogs
    /\ srcRows = [t \in AllTables |-> Unknown]
    /\ target = [t \in AllTables |-> <<>>]
    /\ target0 = target
    /\ RunStart

NextNames ==
    \/ Discover
    \/ SysFilter
    \/ IncludeFilter
    \/ ExcludeFilter

SpecNames == InitNames /\ [][NextNames]_vars

\* ---------------------------------------------------------------- schema tool: type mapper
\* cmd/schema/main.go:23-42
typeMapping ==
       (<<"i", "n", "t">> :> "INTEGER")
    @@ (<<"b", "i", "g", "i", "n", "t">> :> "BIGINT")
    @@ (<<"s", "m", "a", "l", "l", "i", "n", "t">> :> "SMALLINT")
    @@ (<<"b", "i", "t">> :> "BOOLEAN")
    @@ (<<"n", "v", "a", "r", "c", "h", "a", "r">> :> "TEXT")
    @@ (<<"v", "a", "r", "c", "h", "a", "r">> :> "TEXT")
    @@ (<<"n", "c", "h", "a", "r">> :> "TEXT")
    @@ (<<"c", "h", "a", "r">> :> "TEXT")
    @@ (<<"t", "e", "x", "t">> :> "TEXT")
    @@ (<<"d", "a", "t", "e", "t", "i", "m", "e">> :> "TIMESTAMPTZ")
    @@ (<<"d", "a", "t", "e", "t", "i", "m", "e", "2">> :> "TIMESTAMPTZ")
    @@ (<<"d", "a", "t", "e">> :> "DATE")
    @@ (<<"f", "l", "o", "a", "t">> :> "DOUBLE PRECISION")
    @@ (<<"r", "e", "a", "l">> :> "REAL")
    @@ (<<"d", "e", "c", "i", "m", "a", "l">> :> "NUMERIC")
    @@ (<<"n", "u", "m", "e", "r", "i", "c">> :> "NUMERIC")
    @@ (<<"m", "o", "n", "e", "y">> :> "NUMERIC")
    @@ (<<"u", "n", "i", "q", "u", "e", "i", "d", "e", "n", "t", "i", "f", "i", "e", "r">> :> "UUID")

\* SQL Server type names that typeMapping has no entry for
UnknownTypes ==
    {<<"x", "m", "l">>,
     <<"i", "m", "a", "g", "e">>,
     <<"n", "t", "e", "x", "t">>,
     <<"t", "i", "n", "y", "i", "n", "t">>,
     <<"t", "i", "m", "e">>,
     <<"i", "n", "t", "e", "g", "e", "r">>}

\* a name with the letters at the positions in S in upper case
WithUpper(name, S) == [i \in 1..Len(name) |-> IF i \in S THEN UpperChar(name[i]) ELSE name[i]]

\* the spellings of a name tried: up to MaxUpper upper-case letters, and all
\* letters in upper case
Spellings(name) ==
    { WithUpper(name, S) : S \in { T \in SUBSET (1..Len(name)) : Cardinality(T) <= MaxUpper } }
        \cup {WithUpper(name, 1..Len(name))}

\* the DATA_TYPE values the column query can deliver
TypeNames == UNION { Spellings(name) : name \in DOMAIN typeMapping \cup UnknownTypes }

\* a lookup of the name as it is spelled
MapType_CaseSensitive(name) ==
    IF name \in DOMAIN typeMapping THEN typeMapping[name] ELSE "TEXT"

\* cmd/schema/main.go:334-337
MapType(name) ==
    IF ToLower(name) \in DOMAIN typeMapping THEN typeMapping[ToLower(name)] ELSE "TEXT"

\* cmd/schema/main.go:328-337: one row of the column query is scanned and its
\* type mapped
ScanColumnType ==
    /\ \E name \in TypeNames :
         /\ dataType' = name
         /\ pgType' = MapType(name)
    /\ UNCHANGED <<flagVars, filterFlagVars, srcCatalog, probeLog, warnings, storeVars,
                   mainVars, copyVars, stmtVars, openTxs, openCursors>>

\* the schema tool about to read the column query; the migrate tool is not running
InitTypes ==
    /\ batchSize = 1
    /\ truncateFlag = FALSE
    /\ FiltersOff
    /\ preserveCaseFlag = FALSE
    /\ DdlIdle
    /\ srcCatalog = <<>>
    /\ srcRows = [t \in AllTables |-> Unknown]
    /\ target = [t \in AllTables |-> <<>>]
    /\ target0 = target
    /\ RunStart

NextTypes == ScanColumnType

SpecTypes == InitTypes /\ [][NextTypes]_vars

TypeOK ==
    /\ mpc \in {"discover", "sysfilter", "include", "exclude", "empty", "large", "size",
               "skip", "columns", "truncate", "copy", "finished", "fatal"}
    /\ cpc \in {"idle", "start", "begin", "prepare", "next", "scan", "exec", "commit",
                "rebegin", "reprepare", "rollback", "final", "ret"}

\* ---------------------------------------------------------------- properties
CeilDiv(n, b) == (n + b - 1) \div b

\* migrateTableData has returned to main
Returned == mpc = "copy" /\ cpc = "ret"

\* no database call of the returned copy failed
FaultFree == Returned /\ retErr = NoErr /\ ~rowsErr

\* the rows the current table has gained in the target since its copy was called
Gained ==
    SubSeq(target[CurTable], Len(tgtAtStart) + 1, Len(target[CurTable]))

\* C1: a copy of N rows with batch size B >= 1 in which no database call fails
\* makes ceil(N/B) commits when N mod B # 0 and N/B commits when N mod B = 0;
\* in the second case (N = 0 included) the trailing empty transaction is rolled
\* back, not committed; for N = 0 the one transaction opened is rolled back.
C1_CommitCount ==
    (FaultFree /\ batchSize >= 1) =>
        LET N == srcRows[CurTable] IN
        /\ N % batchSize # 0 => commits = CeilDiv(N, batchSize) /\ rollbacks = 0
        /\ N % batchSize = 0 => commits = N \div batchSize /\ rollbacks = 1
        /\ N = 0 => commits = 0 /\ begins = 1 /\ rollbacks = 1
        /\ begins = commits + rollbacks

C1_Witness ==
    /\ FaultFree
    /\ batchSize = 2
    /\ srcRows[CurTable] = 3
    /\ commits = 2

\* every committed batch holds size rows, except that the last holds
\* n mod size rows when that is not zero
BatchSizesOk(log, n, size) ==
    \A k \in 1..Len(log) :
        log[k] = IF k = Len(log) /\ n % size # 0 THEN n % size ELSE size

\* C2: a copy that returns without error has inserted every source row once,
\* in cursor order; every committed batch holds B rows except a last one of
\* N mod B rows; the returned count is N.
C2_CompleteCopy ==
    (Returned /\ retErr = NoErr /\ batchSize >= 1) =>
        LET N == srcRows[CurTable] IN
        /\ Gained = SourceRows(N)
        /\ BatchSizesOk(commitLog, N, batchSize)
        /\ retCount = N

\* C3: the count returned with an insert error is the number of rows in the
\* batches already committed.
C3_PartialCount ==
    (Returned /\ retErr = "insert") => retCount = Len(Gained)

\* C4: when the source cursor fails while rows are being read, the copy returns
\* an error: it does not report success for a table that was only partly read.
C4_ReadErrorAborts ==
    (Returned /\ rowsErr) => retErr # NoErr

\* C5: after an abort on a scan or insert error with k commits done, the table
\* has gained exactly the first k*B source rows, in order, each batch full.
C5_BatchAtomicity ==
    (Returned /\ retErr \in {"scan", "insert"} /\ batchSize >= 1) =>
        /\ target[CurTable] =
              tgtAtStart \o SubSeq(SourceRows(srcRows[CurTable]), 1, commits * batchSize)
        /\ \A k \in 1..Len(commitLog) : commitLog[k] = batchSize

C5_Witness ==
    /\ Returned
    /\ retErr = "insert"
    /\ batchSize = 2
    /\ commits = 1
    /\ inserts = 3
    /\ tgtAtStart = <<OldRow>>

\* C8: with B >= 1 the open transaction never holds more than B uncommitted rows.
C8_InFlightBound ==
    batchSize >= 1 => Len(txRows) <= batchSize

C8_Witness ==
    /\ txOpen
    /\ batchSize = 2
    /\ Len(txRows) = 2
    /\ cpc = "commit"

\* C9: a copy given an empty column list or a name that is not schema.table
\* fails with a configuration error before any source query or target
\* transaction.
C9_ConfigErrorBeforeIO ==
    (Returned /\ (columns = <<>> \/ ~ValidName(CurTable))) =>
        /\ retErr = "config"
        /\ srcQueries = 0
        /\ begins = 0

\* C6: after the first scan, prepare or insert error the copy does no further
\* insert, commit or begin on the target; the open transaction is rolled back
\* and the error is returned.
C6_AbortAtOnce ==
    /\ []((Returned /\ retErr \in {"scan", "prepare", "insert"}) =>
             (~txOpen /\ txRows = <<>> /\ rollbacks = 1 /\ retErr = pendingErr))
    /\ [][pendingErr # NoErr =>
             /\ inserts' = inserts
             /\ commits' = commits
             /\ begins' = begins
             /\ target' = target
             /\ cpc' \in {"ret", "idle"}]_vars

C6_Witness ==
    /\ Returned
    /\ retErr = "insert"
    /\ inserts = 1
    /\ rollbacks = 1
    /\ cursor < srcRows[CurTable]

\* the tables main has made a call for
LogTables == { mainLog[k][2] : k \in 1..Len(mainLog) }

\* the table of the latest migrateTableData call
LastCopyTable ==
    LET ks == { k \in 1..Len(mainLog) : mainLog[k][1] = "copy" }
    IN mainLog[CHOOSE k \in ks : \A j \in ks : j <= k][2]

Pos(t) == CHOOSE j \in 1..Len(tables) : tables[j] = t

\* the position in tables of the table whose copy or column fetch failed
RunFailedAt == IF retErr # NoErr THEN Pos(LastCopyTable) ELSE idx

\* C7: when the copy of table Ti returns an error or its column fetch fails,
\* the run ends: no column fetch, truncate or copy is made for a later table
\* and the target rows of the later tables stay as they were.
C7_FatalStopsRun ==
    /\ (retErr # NoErr /\ cpc # "ret") => mpc = "fatal"
    /\ (retErr # NoErr \/ (mpc = "fatal" /\ idx >= 1)) =>
          \A j \in (RunFailedAt + 1)..Len(tables) :
              /\ tables[j] \notin LogTables
              /\ target[tables[j]] = target0[tables[j]]

C7_Witness ==
    /\ mpc = "fatal"
    /\ retErr = "insert"
    /\ idx = 1
    /\ Len(tables) = 3
    /\ target[TblB] = <<OldRow>>

\* C10: when the iteration of the column metadata rows fails, the table is
\* not copied with the shortened list; when the iteration of the table list
\* fails, no table is copied.
C10_MetadataErrorAborts ==
    /\ colsIterErr => ~(mpc = "copy" /\ cpc \notin {"idle", "start"})
    /\ tablesIterErr => \A k \in 1..Len(mainLog) : mainLog[k][1] # "copy"

\* ---------------------------------------------------------------- C11
\* the statements of the current table copy have been built
StmtBuilt == mpc = "copy" /\ cpc \notin {"idle", "start"} /\ ValidName(CurTable)

\* C11: in every table copy the select list, the insert list, the placeholder
\* list, the values scanned from a row and the values bound to an insert all
\* have the length of the column descriptor, and position i of each of them
\* refers to descriptor column i.
C11_ColumnAlignment ==
    StmtBuilt =>
        LET n == Len(columns)
        IN /\ Len(selectCols) = n
           /\ Len(insertCols) = n
           /\ Len(placeholders) = n
           /\ \A i \in 1..n :
                 /\ SourceColumn(selectCols[i]) = columns[i]
                 /\ EqualFold(TargetColumn(insertCols[i]), columns[i])
                 /\ preserveCaseFlag => TargetColumn(insertCols[i]) = columns[i]
                 /\ placeholders[i] = <<"$", Digit(i)>>
           /\ cpc = "exec" =>
                 /\ Len(values) = n
                 /\ \A i \in 1..n :
                       values[i] = Cell(SourceRows(srcRows[CurTable])[cursor], columns[i])
           /\ inserts > 0 =>
                 /\ Len(bound) = n
                 /\ \A i \in 1..n :
                       /\ EqualFold(bound[i][1], columns[i])
                       /\ bound[i][2] # <<>>
                       /\ bound[i][2][2] = columns[i]
           /\ cpc \in {"commit", "next"} /\ batchCount > 0 =>
                 \A i \in 1..n : bound[i][2] = values[i]

\* a row of a two-column table has been inserted with quoted column names
C11_Witness ==
    /\ StmtBuilt
    /\ preserveCaseFlag
    /\ Len(columns) = 2
    /\ inserts > 0
    /\ cpc = "commit"

\* ---------------------------------------------------------------- C20
\* C20: execution is sequential: at most one table copy is in progress, at most
\* one transaction is open on the target and at most one cursor on the source,
\* both belonging to the copy in progress; when a copy has returned, and so
\* before the next one starts, its cursor is closed and its last transaction
\* has been committed or rolled back.
C20_Sequential ==
    /\ Cardinality(openTxs) <= 1
    /\ openCursors \in {0, 1}
    /\ mpc # "copy" => cpc = "idle"
    /\ cpc \in {"idle", "start", "ret"} => openTxs = {} /\ openCursors = 0
    /\ openTxs # {} => openTxs = {CurTx} /\ txOpen
    /\ txOpen => openTxs = {CurTx}

\* the second table is being copied inside its second transaction
C20_Witness ==
    /\ mpc = "copy"
    /\ idx = 2
    /\ cpc = "scan"
    /\ txId = 2
    /\ openTxs = {CurTx}
    /\ openCursors = 1

\* ---------------------------------------------------------------- C19
\* C19: the type mapper is a total function of the source type name: any
\* upper/lower-case spelling of a name in the mapping table yields that entry's
\* target type, every other name yields TEXT, and the result is never empty.
\* The result depends on the name alone, so mapping a name again gives the
\* same result.
C19_TypeMapper ==
    dataType # <<>> =>
        /\ pgType # ""
        /\ \A key \in DOMAIN typeMapping :
              EqualFold(dataType, key) => pgType = typeMapping[key]
        /\ (\A key \in DOMAIN typeMapping : ~EqualFold(dataType, key)) => pgType = "TEXT"

\* a mapped name in capitals has been given its entry's type
C19_Witness ==
    /\ dataType = <<"B", "I", "G", "I", "N", "T">>
    /\ pgType = "BIGINT"

\* ---------------------------------------------------------------- C14, C15, C16
\* table t is in the list
InList(t, list) == \E i \in 1..Len(list) : list[i] = t

\* the table's own name, without the schema
BareName(t) == Split(t)[2]

\* C14: the exclude pattern log_* drops the tables log_events and log_2024 of
\* schema dbo from the copy list and keeps the table mylog_events.
C14_GlobExclude ==
    (mpc = "empty" /\ excludeTablesFlag = LogGlob) =>
        /\ ~InList(TblLogEvents, tables)
        /\ ~InList(TblLog2024, tables)
        /\ (tablesFlag = <<>> /\ ~tablesIterErr /\ InList(TblMylogEvents, srcCatalog))
              => InList(TblMylogEvents, tables)

\* C15: with an include list, a table survives the include filter if and only
\* if some entry of the list, trimmed of blanks, equals its name regardless of
\* case; the survivors keep their order; with no include list the filter
\* removes nothing.
C15_IncludeFilter ==
    [][(mpc = "include" /\ mpc' = "exclude") =>
          IF tablesFlag = <<>>
          THEN tables' = tables
          ELSE /\ \A t \in { NameCatalog[i] : i \in 1..Len(NameCatalog) } :
                     InList(t, tables') <=>
                        /\ InList(t, tables)
                        /\ \E e \in 1..Len(SplitBy(tablesFlag, ",")) :
                              ToLower(TrimSpace(SplitBy(tablesFlag, ",")[e])) = ToLower(t)
               /\ \A i, j \in 1..Len(tables') :
                     i < j => \E k, l \in 1..Len(tables) :
                                 k < l /\ tables[k] = tables'[i] /\ tables[l] = tables'[j]
               /\ Len(tables') <= Len(tables)]_vars

\* an entry in other case and with blanks has kept its table, and a table
\* that is not named was removed
C15_Witness ==
    /\ mpc = "exclude"
    /\ srcCatalog = NameCatalog
    /\ tablesFlag # <<>>
    /\ tables = <<TblCustomer, TblProduct>>

\* C16: a table named in -tables by its bare name, as in the README example,
\* is selected: when the source holds it, it is in the list the include filter
\* leaves.
C16_BareNameSelects ==
    (mpc = "exclude" /\ ~tablesIterErr /\ tablesFlag # <<>>) =>
        \A i \in 1..Len(srcCatalog) :
            LET t == srcCatalog[i]
            IN (/\ ValidName(t)
                /\ includeSystemSchemasFlag \/ KeepSys(t)
                /\ \E e \in 1..Len(SplitBy(tablesFlag, ",")) :
                      TrimSpace(SplitBy(tablesFlag, ",")[e]) = BareName(t))
               => InList(t, tables)

\* ---------------------------------------------------------------- C12, C13, C17, C18
\* the probes a step has added to the log
NewProbes == { probeLog'[k] : k \in (Len(probeLog) + 1)..Len(probeLog') }

\* the warnings a step has added to the log
NewWarnings == { warnings'[k] : k \in (Len(warnings) + 1)..Len(warnings') }

\* the survivors of a filter step are the tables it keeps, in their order
KeptInOrder ==
    /\ \A t \in { tables'[i] : i \in 1..Len(tables') } : InList(t, tables)
    /\ \A i, j \in 1..Len(tables') :
          i < j => \E k, l \in 1..Len(tables) :
                      k < l /\ tables[k] = tables'[i] /\ tables[l] = tables'[j]

\* C12: with -skip-if-exists a table is dropped from the copy list if and only
\* if the count query on the target succeeds and reports at least one row; a
\* table whose query fails is kept, and the run goes on to the copy loop.
C12_SkipIfExists ==
    [][(mpc = "skip" /\ mpc' # "skip" /\ skipIfExistsFlag) =>
          /\ KeptInOrder
          /\ \A i \in 1..Len(tables) :
                ~InList(tables[i], tables') <=>
                    \E n \in 1..(MaxRows + 1) : <<"skip", tables[i], <<TRUE, n>>>> \in NewProbes
          /\ \A i \in 1..Len(tables) :
                <<"skip", tables[i], ProbeFailed>> \in NewProbes => InList(tables[i], tables')
          /\ mpc' \in {"columns", "finished"}]_vars

\* the populated table was dropped and the table whose query failed was kept
C12_Witness ==
    /\ mpc = "columns"
    /\ skipIfExistsFlag
    /\ \E k \in 1..Len(probeLog) : probeLog[k] = <<"skip", TblA, <<TRUE, 1>>>>
    /\ \E k \in 1..Len(probeLog) : probeLog[k] = <<"skip", TblB, ProbeFailed>>
    /\ ~InList(TblA, tables)
    /\ InList(TblB, tables)

\* C13: with -exclude-empty-tables a table whose row count is found to be 0 is
\* removed from the copy list, and the run never fetches its columns,
\* truncates it or calls the copier for it.
C13_EmptyTableSkipped ==
    \A k \in 1..Len(probeLog) :
        probeLog[k][1] = "empty" /\ probeLog[k][3] = <<TRUE, 0>> =>
            /\ excludeEmptyTablesFlag
            /\ srcRows[probeLog[k][2]] = 0
            /\ ~InList(probeLog[k][2], tables)
            /\ \A j \in 1..Len(mainLog) : mainLog[j][2] # probeLog[k][2]

\* the run has finished: the empty first table was left out, the second copied
C13_Witness ==
    /\ mpc = "finished"
    /\ \E k \in 1..Len(probeLog) : probeLog[k] = <<"empty", TblA, <<TRUE, 0>>>>
    /\ tables = <<TblB>>
    /\ \E j \in 1..Len(mainLog) : mainLog[j] = <<"copy", TblB>>

\* what a ceiling filter's step does with ceiling c and the probes of stage s:
\* a probed table is dropped if and only if its value is above c; with c = 0
\* the step drops nothing and probes nothing
CeilingStep(s, c) ==
    IF c = 0
    THEN tables' = tables /\ probeLog' = probeLog
    ELSE /\ KeptInOrder
         /\ \A i \in 1..Len(tables) :
               \A n \in 0..(MaxRows + MaxSizeMB + 1) :
                  <<s, tables[i], <<TRUE, n>>>> \in NewProbes =>
                      (~InList(tables[i], tables') <=> n > c)
         /\ \A i \in 1..Len(tables) :
               ~InList(tables[i], tables') =>
                  \E n \in 0..(MaxRows + MaxSizeMB + 1) :
                      <<s, tables[i], <<TRUE, n>>>> \in NewProbes

\* C17: the row-count ceiling filter drops a table if and only if its row
\* count is above the ceiling, the size ceiling filter if and only if its size
\* in MB is above the ceiling; a table at the ceiling is kept; a ceiling of 0
\* switches the filter off: nothing dropped, no probe issued.
C17_CeilingFilters ==
    [][/\ (mpc = "large" /\ mpc' = "size") => CeilingStep("large", excludeLargeTablesFlag)
       /\ (mpc = "size" /\ mpc' = "skip") => CeilingStep("size", maxTableSizeFlag)]_vars

\* the first table, at the row ceiling, was kept; the second, above it, dropped
C17_Witness ==
    /\ mpc = "size"
    /\ excludeLargeTablesFlag >= 1
    /\ \E k \in 1..Len(probeLog) :
          probeLog[k] = <<"large", TblA, <<TRUE, excludeLargeTablesFlag>>>>
    /\ \E k \in 1..Len(probeLog) :
          probeLog[k] = <<"large", TblB, <<TRUE, excludeLargeTablesFlag + 1>>>>
    /\ InList(TblA, tables)
    /\ ~InList(TblB, tables)

\* C18: whenever a filter's probe of a table fails (row count, size estimate
\* or target count), a warning is logged for it, the table stays in the copy
\* list and the run is not aborted.
C18_ProbeFailureWarns ==
    [][\A p \in NewProbes :
          p[3] = ProbeFailed =>
              /\ <<p[1], p[2]>> \in NewWarnings
              /\ InList(p[2], tables')
              /\ mpc' # "fatal"]_vars

\* ---------------------------------------------------------------- C23
\* C23 as claimed: at a full-batch boundary the statement of the committed
\* transaction is closed before the new transaction is opened, so that a
\* transaction is opened only while the copier holds no prepared statement.
C23_BoundaryOrder ==
    [][txId' = txId + 1 => stmtTx = 0]_vars

\* C23 as amended: at a full-batch boundary the copier commits the open
\* transaction, then opens a new transaction while it still holds the
\* statement of the committed one, then closes that statement and prepares
\* the insert on the new transaction; no insert is executed in between.
C23_BoundaryOrderAmended ==
    [][/\ (cpc # "rebegin" /\ cpc' = "rebegin") =>
             cpc = "commit" /\ txOpen /\ ~txOpen' /\ commits' = commits + 1
                /\ stmtTx' = txId /\ stmtTx' = stmtTx
       /\ (cpc # "reprepare" /\ cpc' = "reprepare") =>
             cpc = "rebegin" /\ ~txOpen /\ txOpen' /\ txId' = txId + 1
                /\ stmtTx' = txId /\ stmtTx' # 0
       /\ (cpc = "reprepare" /\ cpc' = "next") =>
             txOpen /\ stmtTx = txId - 1 /\ stmtTx' = txId /\ batchCount' = 0
       /\ inserts' > inserts => cpc = "exec"]_vars

\* the second transaction is open and the statement of the first is still held
C23_Witness ==
    /\ cpc = "reprepare"
    /\ txOpen
    /\ txId = 2
    /\ stmtTx = 1
    /\ commits = 1

\* ---------------------------------------------------------------- C25, C26
\* the commit attempts of the current copy that failed: a failed commit is
\* returned at once
FailedCommits == IF cpc = "ret" /\ retErr = "commit" THEN 1 ELSE 0

\* C25: on every return path of migrateTableData no transaction the call
\* opened is left open; every transaction opened has had one commit attempt
\* or one rollback, and none has had both: the transactions begun are as many
\* as the commits, the failed commits, the rollbacks and the one still open.
C25_EveryTxEnded ==
    /\ (mpc = "copy" /\ cpc # "start") =>
          begins = commits + FailedCommits + rollbacks + Cardinality(openTxs)
    /\ Returned => openTxs = {} /\ ~txOpen

\* a copy has returned an insert error after one commit and one rollback
C25_Witness ==
    /\ Returned
    /\ retErr = "insert"
    /\ begins = 2
    /\ commits = 1
    /\ rollbacks = 1

\* C26: every insert of a table copy is executed on the statement prepared in
\* the transaction that is open at that moment: never on the statement of a
\* transaction already committed or rolled back, never with no transaction open.
C26_InsertOnOpenTx ==
    [][inserts' > inserts =>
          /\ cpc = "exec"
          /\ txOpen
          /\ openTxs = {CurTx}
          /\ stmtTx # 0
          /\ stmtTx = txId]_vars

\* a row has been inserted in the second transaction on its own statement
C26_Witness ==
    /\ mpc = "copy"
    /\ inserts = 2
    /\ txId = 2
    /\ stmtTx = 2
    /\ Len(txRows) = 1

\* ---------------------------------------------------------------- C30
\* C30: a batch size of 0 or less is not rejected and does not put the whole
\* table into one transaction: the copy commits after every inserted row, as
\* with batch size 1: N commits of one row each for N rows, and the trailing
\* empty transaction rolled back.
C30_NonPositiveBatch ==
    (Returned /\ batchSize <= 1 /\ ValidName(CurTable) /\ columns # <<>>) =>
        /\ retErr # "config"
        /\ \A k \in 1..Len(commitLog) : commitLog[k] = 1
        /\ commits = Len(commitLog)
        /\ FaultFree =>
              /\ commits = srcRows[CurTable]
              /\ begins = srcRows[CurTable] + 1
              /\ rollbacks = 1
              /\ retCount = srcRows[CurTable]

\* three rows were copied with batch size -1 in three commits
C30_Witness ==
    /\ FaultFree
    /\ batchSize = -1
    /\ srcRows[CurTable] = 3
    /\ commits = 3
    /\ rollbacks = 1

\* ---------------------------------------------------------------- C28
\* main has logged op for table t
InLog(op, t) == \E j \in 1..Len(mainLog) : mainLog[j] = <<op, t>>

\* the truncate of table t failed
TruncateFailed(t) == \E k \in 1..Len(warnings) : warnings[k] = <<"truncate", t>>

\* C28: a failed truncate is not fatal: the run logs a warning and still
\* copies the table, so that a copy without fault leaves the table with the
\* rows it held before followed by the source's rows.
C28_TruncateFailureContinues ==
    /\ \A k \in 1..Len(warnings) :
          warnings[k][1] = "truncate" =>
              /\ InLog("truncate", warnings[k][2])
              /\ \/ InLog("copy", warnings[k][2])
                 \/ mpc = "copy" /\ cpc = "start" /\ CurTable = warnings[k][2]
    /\ (FaultFree /\ TruncateFailed(CurTable)) =>
          /\ tgtAtStart = target0[CurTable]
          /\ target[CurTable] = target0[CurTable] \o SourceRows(srcRows[CurTable])

\* the truncate failed and two rows were copied on top of the old row
C28_Witness ==
    /\ FaultFree
    /\ TruncateFailed(CurTable)
    /\ target0[CurTable] = <<OldRow>>
    /\ target[CurTable] = <<OldRow, 1, 2>>

\* ---------------------------------------------------------------- C29
\* a is b with some elements left out
RECURSIVE IsSubseq(_, _)
IsSubseq(a, b) ==
    IF a = <<>> THEN TRUE
    ELSE IF b = <<>> THEN FALSE
    ELSE IF Head(a) = Head(b) THEN IsSubseq(Tail(a), Tail(b))
    ELSE IsSubseq(a, Tail(b))

\* no table is in the list twice
NoDuplicates(list) == \A i, j \in 1..Len(list) : list[i] = list[j] => i = j

\* the positions of main in which a filter is about to run
FilterStages == {"sysfilter", "include", "exclude", "empty", "large", "size", "skip"}

\* C29: every filter stage returns a subsequence of its input: it adds no
\* table, reorders none and duplicates none, so that the copy list stays a
\* duplicate-free subsequence of the discovered tables in their order.
C29_FiltersSubsequence ==
    [][(mpc \in FilterStages) =>
          /\ IsSubseq(tables', tables)
          /\ NoDuplicates(tables')
          /\ IsSubseq(tables', srcCatalog)]_vars

\* the filters are done: of three tables the one named twice in the include
\* list is left, once
C29_Witness ==
    /\ mpc = "columns"
    /\ tablesFlag = DoubleInclude
    /\ Len(srcCatalog) = 3
    /\ ~tablesIterErr
    /\ tables = <<TblA>>

\* the stage that follows each filter stage
StageAfter ==
    [st \in FilterStages |->
        CASE st = "sysfilter" -> {"include"}
          [] st = "include" -> {"exclude"}
          [] st = "exclude" -> {"empty"}
          [] st = "empty" -> {"large"}
          [] st = "large" -> {"size"}
          [] st = "size" -> {"skip"}
          [] st = "skip" -> {"columns", "finished"}]

\* the log entry that comes right before entry k of the run's log
Before(k) == IF k = 1 THEN <<"none", <<>>>> ELSE mainLog[k - 1]

\* the steps on one table come in the order column fetch, truncate if asked
\* for, copy; a table's column fetch follows the copy of the table before it
PerTableOrder ==
    \A k \in 1..Len(mainLog) :
        LET op == mainLog[k][1]
            t == mainLog[k][2]
        IN /\ InList(t, tables)
           /\ op = "getcols" =>
                 IF Pos(t) = 1 THEN k = 1
                 ELSE Before(k) = <<"copy", tables[Pos(t) - 1]>>
           /\ op = "colquery" => Before(k) = <<"getcols", t>>
           /\ op = "truncate" => truncateFlag /\ Before(k) = <<"colquery", t>>
           /\ op = "copy" =>
                 Before(k) = <<(IF truncateFlag THEN "truncate" ELSE "colquery"), t>>

\* C24: the filters run in the order include, exclude, empty, row ceiling,
\* size ceiling, target-populated, each probing only the tables the earlier
\* ones left; all of them are done before the first column fetch, truncate or
\* copy; then each table in turn has its columns fetched, is truncated if
\* asked for, is copied, and its row count is added to the total.
C24_FilterThenCopyOrder ==
    [][/\ (mpc \in FilterStages) => mpc' \in StageAfter[mpc] /\ mainLog' = <<>>
       /\ \A p \in NewProbes : p[1] = mpc /\ InList(p[2], tables)
       /\ mainLog' # mainLog => mpc \in {"columns", "truncate", "copy"}
       /\ PerTableOrder'
       /\ totalRows' # totalRows =>
             /\ Returned /\ retErr = NoErr
             /\ mainLog[Len(mainLog)] = <<"copy", CurTable>>
             /\ totalRows' = totalRows + retCount]_vars

\* a run with truncate went through every filter and copied two tables, the
\* second of them empty and kept because its count probe failed
C24_Witness ==
    /\ mpc = "finished"
    /\ truncateFlag
    /\ tables = <<TblA, TblB>>
    /\ Len(probeLog) = 8
    /\ Len(mainLog) = 8
    /\ totalRows = 2

\* the target-populated probe of table t succeeded and found rows
FoundPopulated(t) ==
    \E k \in 1..Len(probeLog) :
        /\ probeLog[k][1] = "skip"
        /\ probeLog[k][2] = t
        /\ probeLog[k][3][1]
        /\ probeLog[k][3][2] >= 1

\* table t has had its target-populated probe
SkipProbed(t) ==
    \E k \in 1..Len(probeLog) : probeLog[k][1] = "skip" /\ probeLog[k][2] = t

\* C27: with -truncate and -skip-if-exists both on, a target table that holds
\* rows and whose count query succeeds is never truncated and keeps its rows;
\* every table's populated check is made before the first truncate, and only
\* tables left in the copy list are truncated.
C27_PopulatedNeverTruncated ==
    (truncateFlag /\ skipIfExistsFlag) =>
        /\ \A t \in AllTables :
              FoundPopulated(t) =>
                  /\ ~ InLog("truncate", t)
                  /\ ~ InList(t, tables)
                  /\ target[t] = target0[t]
        /\ \A t \in AllTables :
              InLog("truncate", t) =>
                  /\ InList(t, tables)
                  /\ mpc \notin FilterStages
                  /\ \A i \in 1..Len(tables) :
                        ValidName(tables[i]) => SkipProbed(tables[i])

\* the first table was found populated and left alone, the second was
\* truncated and copied
C27_Witness ==
    /\ mpc = "finished"
    /\ truncateFlag /\ skipIfExistsFlag
    /\ FoundPopulated(TblA)
    /\ target[TblA] = <<OldRow>>
    /\ InLog("truncate", TblB)
    /\ target0[TblB] = <<>>
    /\ target[TblB] = <<1, 2>>

\* ---------------------------------------------------------------- C21, C22
\* the table on which the first run failed
FailedTable == mainLog[1][2]

\* the second run follows a first one that left committed rows of the table
\* it failed on
AfterPartialCopy == IsRerun /\ Len(target0[FailedTable]) >= 1

\* the second run's copy of the table the first failed on has returned no error
RecopyReturned ==
    /\ AfterPartialCopy
    /\ Returned
    /\ CurTable = FailedTable
    /\ retErr = NoErr

\* C21: after a run that failed on table T with k >= 1 batches committed, a
\* re-run with -truncate and without -skip-if-exists whose truncate and copy
\* of T succeed leaves T with exactly the source's rows.
C21_RerunWithTruncate ==
    (RecopyReturned /\ truncateFlag /\ ~ skipIfExistsFlag /\ ~ TruncateFailed(FailedTable)) =>
        target[FailedTable] = SourceRows(srcRows[FailedTable])

\* the filters of the run are done
FiltersDone == mpc \in {"columns", "truncate", "copy", "finished", "fatal"}

\* the first run copied every row of table t, which is not the one it failed on
FullyCopied(t) ==
    /\ AfterPartialCopy
    /\ t # FailedTable
    /\ srcRows[t] # Unknown
    /\ target0[t] = SourceRows(srcRows[t])

====
